---- MODULE Spec2Model ----
(***************************************************************************)
(* The conversation adapter of the openaiadapter package: the translation  *)
(* of a genai conversation into chat-completion messages                   *)
(* (toOpenAIMessages, toOpenAISystemMessage), of the tool catalog          *)
(* (toOpenAITools), of a completion response back into a genai response    *)
(* (toADKResponse), and the single-shot sequence GenerateContent builds    *)
(* from them.                                                              *)
(***************************************************************************)
EXTENDS Integers, Sequences, FiniteSets, TLC

VARIABLES
    pc,         \* position of the run
    contents,   \* req.Contents: the conversation, a sequence of turns
    sysInstr,   \* req.Config.SystemInstruction: <<>> when nil, else <<content>>
    adkTools,   \* req.Tools: map from tool name to tool value
    messages,   \* the wire messages built so far
    tools,      \* the wire tool definitions
    upstream,   \* what CreateChatCompletion returned: [resp, err]
    adkResp,    \* what toADKResponse returned: [resp, err]
    yielded,    \* the (response, error) pairs handed to yield, in order
    log         \* the stages the run went through, in order

vars == <<pc, contents, sysInstr, adkTools, messages, tools, upstream, adkResp,
          yielded, log>>

-----------------------------------------------------------------------------
(* Bounds of the model *)

\* a conversation's size is its number of turns plus its number of fragments
MaxSize == 5

\* the tool-call entries of the first choice of a response
MaxToolCalls == 2

\* the choices of a response
MaxChoices == 2

\* the entries of a tool map
MaxTools == 3

\* the size of the conversations and of the tool maps of whole runs
GenSize == 2
GenTools == 1

-----------------------------------------------------------------------------
(* Values *)

\* an optional pointer is <<>> (nil) or <<v>>
Nil == <<>>
Some(v) == <<v>>

ChatMessageRoleSystem == "system"
ChatMessageRoleUser == "user"
ChatMessageRoleAssistant == "assistant"
ChatMessageRoleTool == "tool"
ToolTypeFunction == "function"

\* structured data (the values of a map[string]any): a string or a list of strings
JStr(s) == [t |-> "str", s |-> s]
JList(l) == [t |-> "list", l |-> l]

\* the keys the model's maps use, in the byte order json.Marshal sorts them
SortedKeys == <<"artifact_names", "content", "query", "results">>

EncString(s) == "\"" \o s \o "\""

RECURSIVE EncArray(_, _)
EncArray(l, i) ==
    IF i > Len(l) THEN ""
    ELSE (IF i > 1 THEN "," ELSE "") \o EncString(l[i]) \o EncArray(l, i + 1)

EncValue(v) ==
    IF v.t = "str" THEN EncString(v.s) ELSE "[" \o EncArray(v.l, 1) \o "]"

RECURSIVE EncFields(_, _, _)
EncFields(m, i, first) ==
    IF i > Len(SortedKeys) THEN ""
    ELSE IF SortedKeys[i] \in DOMAIN m
         THEN (IF first THEN "" ELSE ",") \o EncString(SortedKeys[i]) \o ":"
              \o EncValue(m[SortedKeys[i]]) \o EncFields(m, i + 1, FALSE)
         ELSE EncFields(m, i + 1, first)

\* json.Marshal of a non-nil map[string]any: keys sorted, no white space
Marshal(m) == "{" \o EncFields(m, 1, TRUE) \o "}"

\* fmt.Sprintf("call_%s", name)
CallID(name) == "call_" \o name

-----------------------------------------------------------------------------
(* genai values: a Part has the four fields the adapter reads *)

TextPart(s) ==
    [Text |-> s, InlineData |-> Nil, FunctionCall |-> Nil, FunctionResponse |-> Nil]
InlinePart(d) ==
    [Text |-> "", InlineData |-> Some([Data |-> d]), FunctionCall |-> Nil,
     FunctionResponse |-> Nil]
CallPart(n, a) ==
    [Text |-> "", InlineData |-> Nil, FunctionCall |-> Some([Name |-> n, Args |-> a]),
     FunctionResponse |-> Nil]
ResultPart(n, r) ==
    [Text |-> "", InlineData |-> Nil, FunctionCall |-> Nil,
     FunctionResponse |-> Some([Name |-> n, Response |-> r])]

ToolNames == {"search", "load_artifacts"}

ArgsOf(n) ==
    IF n = "search" THEN [query |-> JStr("X")]
    ELSE [artifact_names |-> JList(<<"a.txt">>)]

ResponseOf(n) ==
    IF n = "search" THEN [results |-> JList(<<"Y">>)]
    ELSE [content |-> JStr("hello")]

Parts ==
    {TextPart("Hi"), InlinePart("IMG")}
    \cup {CallPart(n, ArgsOf(n)) : n \in ToolNames}
    \cup {ResultPart(n, ResponseOf(n)) : n \in ToolNames}

Roles == {"user", "model", ""}

RECURSIVE SumTo(_, _)
SumTo(f, k) == IF k = 0 THEN 0 ELSE f[k] + SumTo(f, k - 1)

\* the conversation of Len(roles) turns that cuts the fragments flat into turns of
\* lens[1], lens[2], ... fragments
Conversation(roles, lens, flat) ==
    [k \in 1..Len(roles) |->
        [Role |-> roles[k],
         Parts |-> SubSeq(flat, SumTo(lens, k - 1) + 1, SumTo(lens, k))]]

\* contents is a conversation of size at most n
IsConversationWithin(n) ==
    \E T \in 0..n :
        \E lens \in [1..T -> 0..(n - T)] :
            /\ T + SumTo(lens, T) <= n
            /\ \E roles \in [1..T -> Roles], flat \in [1..SumTo(lens, T) -> Parts] :
                   contents = Conversation(roles, lens, flat)

SystemInstructions ==
    {Nil, Some([Role |-> "", Parts |-> <<TextPart("Be "), InlinePart("IMG"), TextPart("brief")>>])}

-----------------------------------------------------------------------------
(* toOpenAIMessages *)

Message(role, content, toolCalls, toolCallID) ==
    [Role |-> role, Content |-> content, ToolCalls |-> toolCalls, ToolCallID |-> toolCallID]

\* NormRole without the default of an unset role
NormRoleModelOnly(role) ==
    IF role = "model" THEN ChatMessageRoleAssistant ELSE role

NormRole(role) ==
    IF role = "model" THEN ChatMessageRoleAssistant
    ELSE IF role = "" THEN ChatMessageRoleUser
    ELSE role

\* the loop state of one turn: the text buffer, the pending calls, the output
LoopState(textContent, toolCalls, msgs) ==
    [textContent |-> textContent, toolCalls |-> toolCalls, messages |-> msgs]

\* Flush without the reset of the text buffer
FlushKeepsText(st, role) ==
    IF st.textContent # "" \/ Len(st.toolCalls) > 0
    THEN LoopState(st.textContent, <<>>,
                   Append(st.messages, Message(role, st.textContent, st.toolCalls, "")))
    ELSE st

\* Flush without the reset of the pending calls
FlushKeepsCalls(st, role) ==
    IF st.textContent # "" \/ Len(st.toolCalls) > 0
    THEN LoopState("", st.toolCalls,
                   Append(st.messages, Message(role, st.textContent, st.toolCalls, "")))
    ELSE st

\* if textContent != "" || len(toolCalls) > 0 { append; reset }
Flush(st, role) ==
    IF st.textContent # "" \/ Len(st.toolCalls) > 0
    THEN LoopState("", <<>>,
                   Append(st.messages, Message(role, st.textContent, st.toolCalls, "")))
    ELSE st

ToolMessage(fr) ==
    Message(ChatMessageRoleTool, Marshal(fr.Response), <<>>, CallID(fr.Name))

ToolCallRecord(fc) ==
    [ID |-> CallID(fc.Name), Type |-> ToolTypeFunction,
     Function |-> [Name |-> fc.Name, Arguments |-> Marshal(fc.Args)]]

\* PartStep appending the tool message before the pending text and calls
PartStepToolFirst(st, role, p) ==
    IF p.FunctionResponse # Nil
    THEN Flush(LoopState(st.textContent, st.toolCalls,
                         Append(st.messages, ToolMessage(p.FunctionResponse[1]))), role)
    ELSE LET t1 == IF p.Text # "" THEN st.textContent \o p.Text ELSE st.textContent
             t2 == IF p.InlineData # Nil THEN t1 \o p.InlineData[1].Data ELSE t1
             tc == IF p.FunctionCall # Nil
                   THEN Append(st.toolCalls, ToolCallRecord(p.FunctionCall[1]))
                   ELSE st.toolCalls
         IN  LoopState(t2, tc, st.messages)

\* PartStep emitting a message for every fragment instead of accumulating
PartStepEager(st, role, p) ==
    IF p.FunctionResponse # Nil
    THEN LET f == Flush(st, role)
         IN  LoopState(f.textContent, f.toolCalls,
                       Append(f.messages, ToolMessage(p.FunctionResponse[1])))
    ELSE LET t1 == IF p.Text # "" THEN st.textContent \o p.Text ELSE st.textContent
             t2 == IF p.InlineData # Nil THEN t1 \o p.InlineData[1].Data ELSE t1
             tc == IF p.FunctionCall # Nil
                   THEN Append(st.toolCalls, ToolCallRecord(p.FunctionCall[1]))
                   ELSE st.toolCalls
         IN  Flush(LoopState(t2, tc, st.messages), role)

\* the body of the loop over c.Parts
PartStep(st, role, p) ==
    IF p.FunctionResponse # Nil
    THEN LET f == Flush(st, role)
         IN  LoopState(f.textContent, f.toolCalls,
                       Append(f.messages, ToolMessage(p.FunctionResponse[1])))
    ELSE LET t1 == IF p.Text # "" THEN st.textContent \o p.Text ELSE st.textContent
             t2 == IF p.InlineData # Nil THEN t1 \o p.InlineData[1].Data ELSE t1
             tc == IF p.FunctionCall # Nil
                   THEN Append(st.toolCalls, ToolCallRecord(p.FunctionCall[1]))
                   ELSE st.toolCalls
         IN  LoopState(t2, tc, st.messages)

RECURSIVE PartsLoop(_, _, _, _)
PartsLoop(st, role, parts, i) ==
    IF i > Len(parts) THEN st
    ELSE PartsLoop(PartStep(st, role, parts[i]), role, parts, i + 1)

\* the body of the loop over contents: one turn, appended to msgs
TurnStep(msgs, c) ==
    LET role == NormRole(c.Role)
        st == PartsLoop(LoopState("", <<>>, msgs), role, c.Parts, 1)
    IN  Flush(st, role).messages

RECURSIVE TurnsLoop(_, _, _)
TurnsLoop(msgs, cs, i) ==
    IF i > Len(cs) THEN msgs
    ELSE TurnsLoop(TurnStep(msgs, cs[i]), cs, i + 1)

toOpenAIMessages(cs) == TurnsLoop(<<>>, cs, 1)

RECURSIVE SystemText(_, _)
SystemText(parts, i) ==
    IF i > Len(parts) THEN ""
    ELSE (IF parts[i].Text # "" THEN parts[i].Text ELSE "") \o SystemText(parts, i + 1)

toOpenAISystemMessage(c) ==
    Message(ChatMessageRoleSystem, SystemText(c.Parts, 1), <<>>, "")

-----------------------------------------------------------------------------
(* The inbound half of GenerateContent, on every conversation of the bound *)

\* a (value, error) pair: err is the message of the error, "" when it is nil
NoResult == [err |-> "", resp |-> Nil]

InitInbound ==
    /\ pc = "start"
    /\ IsConversationWithin(MaxSize)
    /\ sysInstr \in SystemInstructions
    /\ adkTools = <<>>
    /\ messages = <<>>
    /\ tools = <<>>
    /\ upstream = NoResult
    /\ adkResp = NoResult
    /\ yielded = <<>>
    /\ log = <<>>

\* messages, err := toOpenAIMessages(req.Contents)
ConvertMessages ==
    /\ pc = "start"
    /\ messages' = toOpenAIMessages(contents)
    /\ log' = Append(log, "toOpenAIMessages")
    /\ pc' = "messages"
    /\ UNCHANGED <<contents, sysInstr, adkTools, tools, upstream, adkResp, yielded>>

\* ConvertSystem appending the system message instead of prepending it
ConvertSystemAppends ==
    /\ pc = "messages"
    /\ messages' = IF sysInstr # Nil
                   THEN messages \o <<toOpenAISystemMessage(sysInstr[1])>>
                   ELSE messages
    /\ pc' = "system"
    /\ UNCHANGED <<contents, sysInstr, adkTools, tools, upstream, adkResp, yielded, log>>

\* if req.Config.SystemInstruction != nil { messages = append([sysMsg], messages...) }
ConvertSystem ==
    /\ pc = "messages"
    /\ messages' = IF sysInstr # Nil
                   THEN <<toOpenAISystemMessage(sysInstr[1])>> \o messages
                   ELSE messages
    /\ pc' = "system"
    /\ UNCHANGED <<contents, sysInstr, adkTools, tools, upstream, adkResp, yielded, log>>

NextInbound == ConvertMessages \/ ConvertSystem

SpecInbound == InitInbound /\ [][NextInbound]_vars

-----------------------------------------------------------------------------
(* toADKResponse *)

\* the argument maps the model's argument texts decode to
KnownArgs ==
    {[query |-> JStr("X")],
     [artifact_names |-> JStr("a.txt")],
     [artifact_names |-> JList(<<"a.txt">>)],
     [artifact_names |-> JStr("a.txt"), query |-> JStr("X")]}

\* an argument text cut short, which json.Unmarshal rejects
BrokenArgText == "{\"query\":"

ArgTexts == {Marshal(a) : a \in KnownArgs} \cup {BrokenArgText}

\* json.Unmarshal([]byte(text), &args) on the texts of ArgTexts: the map whose
\* encoding the text is, or an error when the text is the encoding of none
Unmarshal(text) ==
    IF \E a \in KnownArgs : Marshal(a) = text
    THEN [ok |-> TRUE, args |-> CHOOSE a \in KnownArgs : Marshal(a) = text]
    ELSE [ok |-> FALSE, args |-> <<>>]

\* FixArtifactNames turning every string argument into a list
FixEveryString(args) ==
    [k \in DOMAIN args |-> IF args[k].t = "str" THEN JList(<<args[k].s>>) ELSE args[k]]

\* if val, ok := args["artifact_names"]; ok { if strVal, ok := val.(string); ok { ... } }
FixArtifactNames(args) ==
    IF "artifact_names" \in DOMAIN args /\ args["artifact_names"].t = "str"
    THEN [args EXCEPT !["artifact_names"] = JList(<<args["artifact_names"].s>>)]
    ELSE args

FunctionCallPart(name, args) ==
    [Text |-> "", InlineData |-> Nil, FunctionCall |-> Some([Name |-> name, Args |-> args]),
     FunctionResponse |-> Nil]

\* ToolCallStep without the continue after a failed decode
ToolCallStepNoContinue(parts, tc) ==
    LET u == Unmarshal(tc.Function.Arguments)
    IN  Append(parts, FunctionCallPart(tc.Function.Name,
                                       IF u.ok THEN FixArtifactNames(u.args) ELSE <<>>))

\* the body of the loop over choice.Message.ToolCalls
ToolCallStep(parts, tc) ==
    LET u == Unmarshal(tc.Function.Arguments)
    IN  IF ~u.ok THEN parts
        ELSE Append(parts, FunctionCallPart(tc.Function.Name, FixArtifactNames(u.args)))

RECURSIVE ToolCallsLoop(_, _, _)
ToolCallsLoop(parts, tcs, i) ==
    IF i > Len(tcs) THEN parts
    ELSE ToolCallsLoop(ToolCallStep(parts, tcs[i]), tcs, i + 1)

ErrNoChoices == "no choices returned from ollama"

\* toADKResponse reading the last choice
toADKResponseLastChoice(resp) ==
    IF Len(resp.Choices) = 0 THEN [resp |-> Nil, err |-> ErrNoChoices]
    ELSE LET choice == resp.Choices[Len(resp.Choices)]
             text == IF choice.Message.Content # ""
                     THEN <<TextPart(choice.Message.Content)>>
                     ELSE <<>>
             parts == ToolCallsLoop(text, choice.Message.ToolCalls, 1)
         IN  [resp |-> Some([Content |-> [Role |-> "model", Parts |-> parts]]), err |-> ""]

toADKResponse(resp) ==
    IF Len(resp.Choices) = 0 THEN [resp |-> Nil, err |-> ErrNoChoices]
    ELSE LET choice == resp.Choices[1]
             text == IF choice.Message.Content # ""
                     THEN <<TextPart(choice.Message.Content)>>
                     ELSE <<>>
             parts == ToolCallsLoop(text, choice.Message.ToolCalls, 1)
         IN  [resp |-> Some([Content |-> [Role |-> "model", Parts |-> parts]]), err |-> ""]

\* the tool-call entries a completion may carry
ToolCallEntry(name, text) ==
    [ID |-> "call_0", Type |-> ToolTypeFunction,
     Function |-> [Name |-> name, Arguments |-> text]]

ToolCallEntries ==
    {ToolCallEntry("search", Marshal([query |-> JStr("X")])),
     ToolCallEntry("search", BrokenArgText)}
    \cup {ToolCallEntry("load_artifacts", Marshal(a)) :
             a \in {b \in KnownArgs : "artifact_names" \in DOMAIN b}}

Choice(content, tcs) == [Message |-> [Content |-> content, ToolCalls |-> tcs]]

MessageTexts == {"", "Paris"}

Returned(resp) == [resp |-> Some(resp), err |-> ""]

\* upstream holds a response: no choice, or a first choice of at most MaxToolCalls
\* entries followed by up to MaxChoices - 1 choices of at most one entry
UpstreamIsResponse ==
    \/ upstream = Returned([Choices |-> <<>>])
    \/ \E n \in 0..MaxToolCalls, m \in 0..(MaxChoices - 1) :
          \E text \in MessageTexts, tcs \in [1..n -> ToolCallEntries],
             rest \in [1..m -> {Choice(t, e) : t \in MessageTexts,
                                               e \in {<<>>} \cup {<<x>> : x \in ToolCallEntries}}] :
              upstream = Returned([Choices |-> <<Choice(text, tcs)>> \o rest])

-----------------------------------------------------------------------------
(* The outbound half of GenerateContent, on every response of the bound *)

InitOutbound ==
    /\ pc = "called"
    /\ contents = <<>>
    /\ sysInstr = Nil
    /\ adkTools = <<>>
    /\ messages = <<>>
    /\ tools = <<>>
    /\ UpstreamIsResponse
    /\ adkResp = NoResult
    /\ yielded = <<>>
    /\ log = <<"toOpenAIMessages", "CreateChatCompletion">>

\* adkResp, err := toADKResponse(resp)
ConvertResponse ==
    /\ pc = "called"
    /\ upstream.err = ""
    /\ adkResp' = toADKResponse(upstream.resp[1])
    /\ log' = Append(log, "toADKResponse")
    /\ pc' = "converted"
    /\ UNCHANGED <<contents, sysInstr, adkTools, messages, tools, upstream, yielded>>

NextOutbound == ConvertResponse

SpecOutbound == InitOutbound /\ [][NextOutbound]_vars

-----------------------------------------------------------------------------
(* toOpenAITools *)

NullValue == [t |-> "null"]
SchemaOf(name) == [t |-> "schema", of |-> name]
JNum(n) == [t |-> "num", n |-> n]
JObj(f) == [t |-> "obj", f |-> f]

Declaration(name, description, parameters) ==
    [Name |-> name, Description |-> description, Parameters |-> parameters]

\* a tool value: whether it implements Declarer and the declaration it then returns,
\* whether json.Marshal accepts it and the document it then encodes to
ToolValue(declarer, decl, marshals, json) ==
    [declarer |-> declarer, decl |-> decl, marshals |-> marshals, json |-> json]

NoDeclaration == Declaration("", "", NullValue)

ToolValues ==
    {\* a function tool: a Declarer, no exported field
     ToolValue(TRUE, Declaration("search", "Search the web", SchemaOf("search")), TRUE,
               JObj(<<>>)),
     \* a Declarer whose declaration has no name, though its JSON has one
     ToolValue(TRUE, NoDeclaration, TRUE, JObj([name |-> JStr("hidden")])),
     \* a plain value with name, description and parameters fields
     ToolValue(FALSE, NoDeclaration, TRUE,
               JObj([name |-> JStr("load_artifacts"), description |-> JStr("Loads artifacts"),
                     parameters |-> SchemaOf("load_artifacts")])),
     \* a plain value without a name field
     ToolValue(FALSE, NoDeclaration, TRUE, JObj([title |-> JStr("x")])),
     \* a plain value json.Marshal rejects (a func or a chan)
     ToolValue(FALSE, NoDeclaration, FALSE, NullValue),
     \* a plain value whose name is a number, which does not decode into a string
     ToolValue(FALSE, NoDeclaration, TRUE, JObj([name |-> JNum(5)]))}

StringField(f, k) == IF k \in DOMAIN f THEN f[k].s ELSE ""

\* json.Unmarshal(jsonBytes, &td): an object whose name and description, when it
\* has them, are strings
UnmarshalToolDef(doc) ==
    IF /\ doc.t = "obj"
       /\ \A k \in {"name", "description"} \cap DOMAIN doc.f : doc.f[k].t = "str"
    THEN [ok |-> TRUE,
          td |-> Declaration(StringField(doc.f, "name"), StringField(doc.f, "description"),
                             IF "parameters" \in DOMAIN doc.f THEN doc.f["parameters"]
                             ELSE NullValue)]
    ELSE [ok |-> FALSE, td |-> NoDeclaration]

Tool(d) ==
    [Type |-> ToolTypeFunction,
     Function |-> [Name |-> d.Name, Description |-> d.Description,
                   Parameters |-> d.Parameters]]

\* ToolStep reading the JSON of a Declarer whose declaration has no name
ToolStepFallsBack(ts, v) ==
    LET u == UnmarshalToolDef(v.json)
        d == IF v.declarer /\ v.decl.Name # "" THEN v.decl
             ELSE IF v.marshals /\ u.ok /\ u.td.Name # "" THEN u.td
             ELSE NoDeclaration
    IN  IF d.Name # "" THEN Append(ts, Tool(d)) ELSE ts

\* the body of the loop over adkTools
ToolStep(ts, v) ==
    IF v.declarer
    THEN IF v.decl.Name # "" THEN Append(ts, Tool(v.decl)) ELSE ts
    ELSE IF ~v.marshals THEN ts
    ELSE LET u == UnmarshalToolDef(v.json)
             d == IF u.ok /\ u.td.Name # "" THEN u.td ELSE NoDeclaration
         IN  IF d.Name # "" THEN Append(ts, Tool(d)) ELSE ts

RECURSIVE ToolsLoop(_, _, _, _)
ToolsLoop(ts, m, order, i) ==
    IF i > Len(order) THEN ts
    ELSE ToolsLoop(ToolStep(ts, m[order[i]]), m, order, i + 1)

\* toOpenAITools, ranging over the map in the order given (Go fixes none)
toOpenAITools(m, order) == ToolsLoop(<<>>, m, order, 1)

\* adkTools is a map of at most n entries; its keys, which toOpenAITools does not
\* read, are 1..n
IsToolMapWithin(n) ==
    \E k \in 0..n : \E m \in [1..k -> ToolValues] : adkTools = m

-----------------------------------------------------------------------------
(* The tool catalog step of GenerateContent, on every tool map of the bound *)

InitTools ==
    /\ pc = "system"
    /\ contents = <<>>
    /\ sysInstr = Nil
    /\ IsToolMapWithin(MaxTools)
    /\ messages = <<>>
    /\ tools = <<>>
    /\ upstream = NoResult
    /\ adkResp = NoResult
    /\ yielded = <<>>
    /\ log = <<"toOpenAIMessages">>

\* if len(req.Tools) > 0 { tools = toOpenAITools(req.Tools) }
ConvertTools ==
    /\ pc = "system"
    /\ IF Len(adkTools) > 0
       THEN \E order \in Permutations(DOMAIN adkTools) :
                tools' = toOpenAITools(adkTools, order)
       ELSE tools' = <<>>
    /\ pc' = "tools"
    /\ UNCHANGED <<contents, sysInstr, adkTools, messages, upstream, adkResp, yielded, log>>

NextTools == ConvertTools

SpecTools == InitTools /\ [][NextTools]_vars

-----------------------------------------------------------------------------
(* GenerateContent: one run of the sequence it returns *)

ZeroResponse == [Choices |-> <<>>]

\* the responses of whole runs
GenResponses ==
    {ZeroResponse,
     [Choices |-> <<Choice("Paris", <<>>)>>],
     [Choices |-> <<Choice("", <<ToolCallEntry("search", Marshal([query |-> JStr("X")]))>>)>>],
     [Choices |-> <<Choice("", <<ToolCallEntry("search", BrokenArgText)>>)>>],
     [Choices |-> <<Choice("Paris", <<>>), Choice("Lyon", <<>>)>>]}

\* what a failed exchange returns: a network error, the caller's cancellation
UpstreamErrors == {"connection refused", "context canceled"}

InitGen ==
    /\ pc = "start"
    /\ IsConversationWithin(GenSize)
    /\ sysInstr \in SystemInstructions
    /\ IsToolMapWithin(GenTools)
    /\ messages = <<>>
    /\ tools = <<>>
    /\ upstream = NoResult
    /\ adkResp = NoResult
    /\ yielded = <<>>
    /\ log = <<>>

\* resp, err := m.client.CreateChatCompletion(ctx, ...), err == nil
CallReturns ==
    /\ pc = "tools"
    /\ \E r \in GenResponses : upstream' = Returned(r)
    /\ log' = Append(log, "CreateChatCompletion")
    /\ pc' = "called"
    /\ UNCHANGED <<contents, sysInstr, adkTools, messages, tools, adkResp, yielded>>

\* resp, err := m.client.CreateChatCompletion(ctx, ...), err != nil
CallFails ==
    /\ pc = "tools"
    /\ \E e \in UpstreamErrors : upstream' = [resp |-> Some(ZeroResponse), err |-> e]
    /\ log' = Append(log, "CreateChatCompletion")
    /\ pc' = "called"
    /\ UNCHANGED <<contents, sysInstr, adkTools, messages, tools, adkResp, yielded>>

\* YieldCallError without the return after the yield
YieldCallErrorNoReturn ==
    /\ pc = "called"
    /\ upstream.err # ""
    /\ yielded' = Append(yielded, [resp |-> Nil, err |-> "ollama call failed: " \o upstream.err])
    /\ upstream' = [upstream EXCEPT !.err = ""]
    /\ UNCHANGED <<pc, contents, sysInstr, adkTools, messages, tools, adkResp, log>>

\* if err != nil { yield(nil, fmt.Errorf("ollama call failed: %w", err)); return }
YieldCallError ==
    /\ pc = "called"
    /\ upstream.err # ""
    /\ yielded' = Append(yielded, [resp |-> Nil, err |-> "ollama call failed: " \o upstream.err])
    /\ pc' = "done"
    /\ UNCHANGED <<contents, sysInstr, adkTools, messages, tools, upstream, adkResp, log>>

\* if err != nil { yield(nil, fmt.Errorf("failed to convert response: %w", err)); return }
YieldConvertError ==
    /\ pc = "converted"
    /\ adkResp.err # ""
    /\ yielded' = Append(yielded, [resp |-> Nil,
                                   err |-> "failed to convert response: " \o adkResp.err])
    /\ pc' = "done"
    /\ UNCHANGED <<contents, sysInstr, adkTools, messages, tools, upstream, adkResp, log>>

\* yield(adkResp, nil)
YieldResponse ==
    /\ pc = "converted"
    /\ adkResp.err = ""
    /\ yielded' = Append(yielded, [resp |-> adkResp.resp, err |-> ""])
    /\ pc' = "done"
    /\ UNCHANGED <<contents, sysInstr, adkTools, messages, tools, upstream, adkResp, log>>

NextGen ==
    \/ ConvertMessages
    \/ ConvertSystem
    \/ ConvertTools
    \/ CallReturns
    \/ CallFails
    \/ ConvertResponse
    \/ YieldCallError
    \/ YieldConvertError
    \/ YieldResponse

SpecGen == InitGen /\ [][NextGen]_vars

\* the default specification: one run of GenerateContent
Spec == SpecGen

-----------------------------------------------------------------------------
(* The conversation as the claims read it: its fragments in order, and the *)
(* flush units of each turn (the runs of fragments that the ToolResult     *)
(* fragments of the turn separate)                                         *)

IsText(p) == p.Text # ""
IsInline(p) == p.InlineData # Nil
IsCall(p) == p.FunctionCall # Nil
IsResult(p) == p.FunctionResponse # Nil

RECURSIVE Flatten(_, _)
Flatten(cs, i) == IF i > Len(cs) THEN <<>> ELSE cs[i].Parts \o Flatten(cs, i + 1)

Fragments == Flatten(contents, 1)

RECURSIVE UnitsFrom(_, _, _)
UnitsFrom(parts, i, cur) ==
    IF i > Len(parts) THEN <<cur>>
    ELSE IF IsResult(parts[i]) THEN <<cur>> \o UnitsFrom(parts, i + 1, <<>>)
    ELSE UnitsFrom(parts, i + 1, Append(cur, parts[i]))

Units(c) == UnitsFrom(c.Parts, 1, <<>>)

RECURSIVE UnitText(_, _)
UnitText(u, i) ==
    IF i > Len(u) THEN ""
    ELSE (IF IsText(u[i]) THEN u[i].Text
          ELSE IF IsInline(u[i]) THEN u[i].InlineData[1].Data
          ELSE "") \o UnitText(u, i + 1)

\* a unit with no text and no call emits nothing
UnitEmits(u) == UnitText(u, 1) # "" \/ \E i \in 1..Len(u) : IsCall(u[i])

RECURSIVE AllUnits(_, _)
AllUnits(cs, i) == IF i > Len(cs) THEN <<>> ELSE Units(cs[i]) \o AllUnits(cs, i + 1)

EmittingUnits == SelectSeq(AllUnits(contents, 1), UnitEmits)

NumResults(c) == Cardinality({i \in 1..Len(c.Parts) : IsResult(c.Parts[i])})

\* the number of messages the k-th turn accounts for: one per ToolResult, one per
\* emitting unit
TurnCount(k) == NumResults(contents[k]) + Len(SelectSeq(Units(contents[k]), UnitEmits))

RECURSIVE CountBefore(_)
CountBefore(k) == IF k <= 1 THEN 0 ELSE TurnCount(k - 1) + CountBefore(k - 1)

\* the turn the i-th turn-derived message belongs to
TurnOf(i) == CHOOSE k \in 1..Len(contents) : CountBefore(k) < i /\ i <= CountBefore(k) + TurnCount(k)

IsToolMessage(m) == m.Role = "tool"
IsFlushMessage(m) == m.Role # "tool"

\* the position in ms of its n-th tool-role message
ToolPos(ms, n) ==
    CHOOSE j \in 1..Len(ms) :
        IsToolMessage(ms[j]) /\ Cardinality({k \in 1..j : IsToolMessage(ms[k])}) = n

\* the position in the fragments of the n-th ToolResult
ResultPos(n) ==
    CHOOSE j \in 1..Len(Fragments) :
        IsResult(Fragments[j])
        /\ Cardinality({k \in 1..j : IsResult(Fragments[k])}) = n

NumResultFragments == Cardinality({k \in 1..Len(Fragments) : IsResult(Fragments[k])})

HasRecord(m, id) == \E c \in 1..Len(m.ToolCalls) : m.ToolCalls[c].ID = id

Translated == pc = "messages"

-----------------------------------------------------------------------------
(* C1 *)

\* C1 as stated: for every ToolResult fragment the output holds a tool-role message
\* whose tool_call_id is "call_" + result.name, and some message earlier in the
\* output carries a ToolCallRecord with that identifier.
C1_AsStated ==
    Translated =>
        \A f \in 1..Len(Fragments) :
            IsResult(Fragments[f]) =>
                LET id == "call_" \o Fragments[f].FunctionResponse[1].Name
                IN  \E j \in 1..Len(messages) :
                        /\ messages[j].Role = "tool"
                        /\ messages[j].ToolCallID = id
                        /\ \E k \in 1..(j - 1) : HasRecord(messages[k], id)

\* C1 amended: the n-th ToolResult fragment is the n-th tool-role message of the
\* output, whose tool_call_id is "call_" + result.name; and when a ToolCall fragment
\* of the same name precedes the ToolResult in the conversation, a message earlier
\* in the output than that tool message carries a ToolCallRecord with that identifier.
C1_ToolResultCorrelated ==
    Translated =>
        /\ Cardinality({j \in 1..Len(messages) : IsToolMessage(messages[j])})
             = NumResultFragments
        /\ \A n \in 1..NumResultFragments :
              LET f == ResultPos(n)
                  j == ToolPos(messages, n)
                  name == Fragments[f].FunctionResponse[1].Name
                  id == "call_" \o name
              IN  /\ messages[j].ToolCallID = id
                  /\ (\E g \in 1..(f - 1) :
                         IsCall(Fragments[g]) /\ Fragments[g].FunctionCall[1].Name = name)
                     => \E k \in 1..(j - 1) : HasRecord(messages[k], id)

\* a translated conversation in which a ToolCall is followed by the ToolResult of the
\* same name
C1_Witness ==
    /\ Translated
    /\ \E f \in 1..Len(Fragments) :
          /\ IsResult(Fragments[f])
          /\ \E g \in 1..(f - 1) :
                /\ IsCall(Fragments[g])
                /\ Fragments[g].FunctionCall[1].Name = Fragments[f].FunctionResponse[1].Name

-----------------------------------------------------------------------------
(* C2 *)

\* C2 as stated: every message with a non-empty list of ToolCallRecords has role
\* assistant, and every message with a tool_call_id has role tool.
C2_AsStated ==
    Translated =>
        \A i \in 1..Len(messages) :
            /\ Len(messages[i].ToolCalls) > 0 => messages[i].Role = "assistant"
            /\ messages[i].ToolCallID # "" => messages[i].Role = "tool"

\* C2 amended: every message with a non-empty list of ToolCallRecords has the
\* normalised role of the turn it derives from (assistant when the turn's role is
\* model, user when it is user or unset), and every message with a tool_call_id has
\* role tool.
C2_RolesOfCarriers ==
    Translated =>
        \A i \in 1..Len(messages) :
            /\ Len(messages[i].ToolCalls) > 0 =>
                  messages[i].Role =
                      (IF contents[TurnOf(i)].Role = "model" THEN "assistant" ELSE "user")
            /\ messages[i].ToolCallID # "" => messages[i].Role = "tool"

\* a translated conversation with a ToolCall in a turn of unset role and a ToolResult
C2_Witness ==
    /\ Translated
    /\ \E k \in 1..Len(contents) :
          contents[k].Role = "" /\ \E i \in 1..Len(contents[k].Parts) : IsCall(contents[k].Parts[i])
    /\ \E i \in 1..Len(messages) : messages[i].ToolCallID # ""
    /\ \E i \in 1..Len(messages) : Len(messages[i].ToolCalls) > 0

-----------------------------------------------------------------------------
(* C3 *)

\* C3: a conversation with no ToolResult fragment yields at most one message per
\* turn and none for a turn with zero fragments, so no more messages than turns.
C3_AtMostOnePerTurn ==
    (Translated /\ NumResultFragments = 0) =>
        /\ Len(messages) <= Cardinality({k \in 1..Len(contents) : Len(contents[k].Parts) > 0})
        /\ Len(messages) <= Len(contents)

\* a translated conversation without ToolResult, with an empty turn and a turn of
\* several fragments
C3_Witness ==
    /\ Translated
    /\ NumResultFragments = 0
    /\ \E k \in 1..Len(contents) : Len(contents[k].Parts) = 0
    /\ \E k \in 1..Len(contents) : Len(contents[k].Parts) >= 2
    /\ Len(messages) >= 1

-----------------------------------------------------------------------------
(* C4 *)

\* C4: the messages that are not tool messages are, in order, the flush units that
\* hold a text, inline or call fragment, and the content of each is the
\* concatenation in fragment order of the texts and inline bytes of its own unit,
\* with nothing left over from the unit or the turn before.
C4_UnitContent ==
    Translated =>
        LET flushed == SelectSeq(messages, IsFlushMessage)
        IN  /\ Len(flushed) = Len(EmittingUnits)
            /\ \A i \in 1..Len(flushed) :
                  flushed[i].Content = UnitText(EmittingUnits[i], 1)

\* a translated turn whose first unit holds a Text and an InlineBinary fragment and
\* whose next unit, after a ToolResult, holds text again
C4_Witness ==
    /\ Translated
    /\ \E k \in 1..Len(contents) :
          LET us == Units(contents[k])
          IN  /\ Len(us) >= 2
              /\ \E i, j \in 1..Len(us[1]) : i < j /\ IsText(us[1][i]) /\ IsInline(us[1][j])
              /\ UnitText(us[2], 1) # ""

-----------------------------------------------------------------------------
(* C5 *)

RECURSIVE PerTurn(_, _)
PerTurn(cs, i) ==
    IF i > Len(cs) THEN <<>> ELSE toOpenAIMessages(<<cs[i]>>) \o PerTurn(cs, i + 1)

\* C5: the list to send is the system message, when there is a system instruction,
\* followed by the messages of turn 1 alone, then those of turn 2 alone, and so on.
C5_TurnOrder ==
    pc = "system" =>
        /\ messages =
              (IF sysInstr # Nil
               THEN <<[Role |-> "system", Content |-> "Be brief", ToolCalls |-> <<>>,
                       ToolCallID |-> ""]>>
               ELSE <<>>) \o PerTurn(contents, 1)
        /\ sysInstr # Nil =>
              /\ messages[1].Role = "system"
              /\ \A i \in 2..Len(messages) : messages[i].Role # "system"

\* a list to send with a system message and messages of two turns
C5_Witness ==
    /\ pc = "system"
    /\ sysInstr # Nil
    /\ Len(contents) >= 2
    /\ toOpenAIMessages(<<contents[1]>>) # <<>>
    /\ toOpenAIMessages(<<contents[2]>>) # <<>>

-----------------------------------------------------------------------------
(* C6 *)

Choices == upstream.resp[1].Choices
Converted == pc = "converted"

\* C6: with zero choices toADKResponse returns the no-choices error and no response;
\* with one or more it returns a response and no error, and the response is the one
\* the first choice alone gives.
C6_EmptyResponse ==
    Converted =>
        /\ Len(Choices) = 0 =>
              adkResp.err = "no choices returned from ollama" /\ adkResp.resp = Nil
        /\ Len(Choices) >= 1 =>
              /\ adkResp.err = ""
              /\ adkResp.resp # Nil
              /\ adkResp.resp[1].Content.Role = "model"
              /\ adkResp = toADKResponse([Choices |-> <<Choices[1]>>])
              /\ Choices[1].Message.Content # "" =>
                    adkResp.resp[1].Content.Parts[1].Text = Choices[1].Message.Content
              /\ Choices[1].Message.Content = "" =>
                    \A i \in 1..Len(adkResp.resp[1].Content.Parts) :
                        adkResp.resp[1].Content.Parts[i].Text = ""

\* a converted response with zero choices
C6_Witness == Converted /\ Len(Choices) = 0 /\ adkResp.err # ""

-----------------------------------------------------------------------------
(* C7 *)

Decodes(tc) == tc.Function.Arguments # BrokenArgText

\* C7: with a first choice, the conversion succeeds whatever the argument texts are;
\* the Text fragment, present when the message text is not empty, is first, and the
\* ToolCall fragments after it are the entries whose text decodes, in their order.
C7_DecodeErrorDropped ==
    (Converted /\ Len(Choices) >= 1) =>
        LET msg == Choices[1].Message
            parts == adkResp.resp[1].Content.Parts
            kept == SelectSeq(msg.ToolCalls, Decodes)
            off == IF msg.Content # "" THEN 1 ELSE 0
        IN  /\ adkResp.err = ""
            /\ Len(parts) = off + Len(kept)
            /\ off = 1 => parts[1] = TextPart(msg.Content)
            /\ \A i \in 1..Len(kept) :
                  /\ parts[off + i].FunctionCall # Nil
                  /\ parts[off + i].Text = ""
                  /\ parts[off + i].FunctionCall[1].Name = kept[i].Function.Name

\* a converted first choice with text, an entry that does not decode and, after it,
\* one that does
C7_Witness ==
    /\ Converted
    /\ Len(Choices) >= 1
    /\ Choices[1].Message.Content # ""
    /\ \E i, j \in 1..Len(Choices[1].Message.ToolCalls) :
          /\ i < j
          /\ ~Decodes(Choices[1].Message.ToolCalls[i])
          /\ Decodes(Choices[1].Message.ToolCalls[j])

-----------------------------------------------------------------------------
(* C8 *)

\* the map an argument text that decodes is the encoding of
Decoded(tc) == CHOOSE a \in KnownArgs : Marshal(a) = tc.Function.Arguments

\* C8: the arguments of a ToolCall fragment have the fields of the decoded map;
\* artifact_names, when the map holds it as a string s, is the list of the one
\* element s, and every other field, and artifact_names when it is no string, is as
\* decoded.
C8_ArtifactNamesRepaired ==
    (Converted /\ Len(Choices) >= 1) =>
        LET msg == Choices[1].Message
            parts == adkResp.resp[1].Content.Parts
            kept == SelectSeq(msg.ToolCalls, Decodes)
            off == IF msg.Content # "" THEN 1 ELSE 0
        IN  \A i \in 1..Len(kept) :
                LET in == Decoded(kept[i])
                    out == parts[off + i].FunctionCall[1].Args
                IN  /\ DOMAIN out = DOMAIN in
                    /\ \A k \in DOMAIN in :
                          IF k = "artifact_names" /\ in[k].t = "str"
                          THEN out[k] = [t |-> "list", l |-> <<in[k].s>>]
                          ELSE out[k] = in[k]

\* a converted entry whose arguments hold artifact_names as a string beside another
\* string field
C8_Witness ==
    /\ Converted
    /\ Len(Choices) >= 1
    /\ \E i \in 1..Len(Choices[1].Message.ToolCalls) :
          LET tc == Choices[1].Message.ToolCalls[i]
          IN  /\ Decodes(tc)
              /\ DOMAIN Decoded(tc) = {"artifact_names", "query"}
              /\ Decoded(tc)["artifact_names"].t = "str"

-----------------------------------------------------------------------------
(* C9 *)

Stages == <<"toOpenAIMessages", "CreateChatCompletion", "toADKResponse">>
Done == pc = "done"

\* C9: a run yields at most one pair and has yielded exactly one when it is
\* complete, the response or the error of which is nil, never both nor neither; it
\* goes on until then and does nothing after; it translates inbound, calls upstream
\* at most once and translates outbound, in that order; a failed call, a
\* cancellation included, and a response of zero choices yield a nil response and
\* an error, and after a failed call the outbound translation does not run.
C9_SingleOutcome ==
    /\ Len(yielded) <= 1
    /\ Done <=> Len(yielded) = 1
    /\ Done <=> ~ENABLED NextGen
    /\ Len(log) <= Len(Stages) /\ log = SubSeq(Stages, 1, Len(log))
    /\ Done =>
          /\ (yielded[1].resp = Nil) # (yielded[1].err = "")
          /\ Len(log) >= 2
          /\ upstream.err # "" =>
                /\ yielded[1].resp = Nil
                /\ yielded[1].err = "ollama call failed: " \o upstream.err
                /\ log = <<"toOpenAIMessages", "CreateChatCompletion">>
                /\ adkResp = NoResult
          /\ (upstream.err = "" /\ Len(Choices) = 0) =>
                /\ yielded[1].resp = Nil
                /\ yielded[1].err = "failed to convert response: no choices returned from ollama"
          /\ (upstream.err = "" /\ Len(Choices) >= 1) =>
                /\ yielded[1].err = ""
                /\ yielded[1].resp # Nil
                /\ log = Stages

\* a complete run whose call was cancelled
C9_Witness ==
    /\ Done
    /\ upstream.err = "context canceled"
    /\ Len(yielded) = 1

-----------------------------------------------------------------------------
(* C10 *)

\* the definition a tool value is to give: by its declaration when it is a Declarer,
\* else by the name, description and parameters of the JSON object it encodes to
Advertised(v) ==
    IF v.declarer
    THEN [Type |-> "function",
          Function |-> [Name |-> v.decl.Name, Description |-> v.decl.Description,
                        Parameters |-> v.decl.Parameters]]
    ELSE [Type |-> "function",
          Function |-> [Name |-> v.json.f["name"].s,
                        Description |-> IF "description" \in DOMAIN v.json.f
                                        THEN v.json.f["description"].s ELSE "",
                        Parameters |-> IF "parameters" \in DOMAIN v.json.f
                                       THEN v.json.f["parameters"] ELSE [t |-> "null"]]]

YieldsName(v) ==
    IF v.declarer THEN v.decl.Name # ""
    ELSE /\ v.marshals
         /\ v.json.t = "obj"
         /\ "name" \in DOMAIN v.json.f
         /\ v.json.f["name"].t = "str"
         /\ v.json.f["name"].s # ""

\* C10: the catalog holds one definition for each entry of the map whose value
\* yields a name, the one its declaration or else its JSON gives, and nothing for
\* the other entries; the run goes on without an error.
C10_CatalogOfNamedTools ==
    pc = "tools" =>
        LET named == {k \in DOMAIN adkTools : YieldsName(adkTools[k])}
        IN  /\ Len(tools) = Cardinality(named)
            /\ \A k \in named :
                  Cardinality({i \in 1..Len(tools) : tools[i] = Advertised(adkTools[k])})
                    = Cardinality({j \in named : Advertised(adkTools[j]) = Advertised(adkTools[k])})
            /\ yielded = <<>>

\* a catalog from a map with a Declarer that has a name, a plain value that has one,
\* and a value that has none
C10_Witness ==
    /\ pc = "tools"
    /\ \E i, j, k \in DOMAIN adkTools :
          /\ adkTools[i].declarer /\ YieldsName(adkTools[i])
          /\ ~adkTools[j].declarer /\ YieldsName(adkTools[j])
          /\ ~YieldsName(adkTools[k])
    /\ Len(tools) = 2

-----------------------------------------------------------------------------
(* C11 *)

\* the names of the ToolCall fragments of a unit, in order
CallNames(u) ==
    LET calls == SelectSeq(u, IsCall)
    IN  [i \in 1..Len(calls) |-> calls[i].FunctionCall[1].Name]

\* the messages the k-th turn is to give, from its u-th unit on: for each unit the
\* message of its text and calls, when it has any, then the tool message of the
\* ToolResult that ends the unit, when one does
RECURSIVE TurnLayout(_, _)
TurnLayout(k, u) ==
    LET us == Units(contents[k])
        rs == SelectSeq(contents[k].Parts, IsResult)
    IN  IF u > Len(us) THEN <<>>
        ELSE (IF UnitEmits(us[u])
              THEN <<[kind |-> "flush", turn |-> k, unit |-> us[u], name |-> ""]>>
              ELSE <<>>)
             \o (IF u < Len(us)
                 THEN <<[kind |-> "tool", turn |-> k, unit |-> <<>>,
                         name |-> rs[u].FunctionResponse[1].Name]>>
                 ELSE <<>>)
             \o TurnLayout(k, u + 1)

RECURSIVE Layout(_)
Layout(k) == IF k > Len(contents) THEN <<>> ELSE TurnLayout(k, 1) \o Layout(k + 1)

RECURSIVE NumRecords(_, _)
NumRecords(ms, i) ==
    IF i > Len(ms) THEN 0 ELSE Len(ms[i].ToolCalls) + NumRecords(ms, i + 1)

\* C11: the output is, turn by turn and unit by unit, the message of the unit's text
\* and calls (of the turn's role, with one ToolCallRecord per ToolCall fragment of
\* the unit, in order) immediately followed by the tool message of the ToolResult
\* that ends the unit; so every ToolCall fragment is one record and every ToolResult
\* one tool message, the calls between two ToolResults share a message, and nothing
\* after a ToolResult is in a message before it.
C11_ToolTrafficKept ==
    Translated =>
        LET lay == Layout(1)
        IN  /\ Len(messages) = Len(lay)
            /\ NumRecords(messages, 1)
                 = Cardinality({f \in 1..Len(Fragments) : IsCall(Fragments[f])})
            /\ Cardinality({j \in 1..Len(messages) : messages[j].Role = "tool"})
                 = NumResultFragments
            /\ \A i \in 1..Len(lay) :
                  IF lay[i].kind = "tool"
                  THEN /\ messages[i].Role = "tool"
                       /\ messages[i].ToolCallID = "call_" \o lay[i].name
                       /\ messages[i].ToolCalls = <<>>
                  ELSE /\ messages[i].Role =
                             (IF contents[lay[i].turn].Role = "model" THEN "assistant"
                              ELSE "user")
                       /\ messages[i].ToolCallID = ""
                       /\ Len(messages[i].ToolCalls) = Len(CallNames(lay[i].unit))
                       /\ \A c \in 1..Len(messages[i].ToolCalls) :
                             /\ messages[i].ToolCalls[c].Function.Name
                                  = CallNames(lay[i].unit)[c]
                             /\ messages[i].ToolCalls[c].ID
                                  = "call_" \o CallNames(lay[i].unit)[c]

\* a translated turn with two ToolCalls of different names in a row, the ToolResult
\* after them and a fragment after the ToolResult
C11_Witness ==
    /\ Translated
    /\ \E k \in 1..Len(contents) :
          LET ps == contents[k].Parts
          IN  \E i \in 1..(Len(ps) - 3) :
                  /\ IsCall(ps[i]) /\ IsCall(ps[i + 1])
                  /\ ps[i].FunctionCall[1].Name # ps[i + 1].FunctionCall[1].Name
                  /\ IsResult(ps[i + 2])
                  /\ ~IsResult(ps[i + 3])

====
